---- MODULE Spec2Model ----
(***************************************************************************)
(* State machine of the PDF page extractor page (src/src/app/page.tsx,     *)
(* component Home, current variant at lines 1-648).                        *)
(*                                                                         *)
(* The React state of Home is the state of the model.  Every event        *)
(* handler is one action; an async handler (loadPdf, extractPages) is one *)
(* action per stretch of code between two awaits, and the calls that are  *)
(* suspended at an await are kept in the sequences loads and extracts.    *)
(* A suspended call keeps the values its closure captured when it was     *)
(* started.                                                                *)
(***************************************************************************)
EXTENDS Integers, Sequences, FiniteSets, TLC

VARIABLES
    pdfInfo,       \* useState<PdfInfo | null>
    startPage,     \* useState<number>(1)
    endPage,       \* useState<number>(1)
    isDragging,    \* useState(false)
    isProcessing,  \* useState(false)
    error,         \* useState<string | null>(null)
    loads,         \* loadPdf calls suspended at an await, oldest first
    extracts,      \* extractPages calls suspended at an await, oldest first
    download,      \* the link clicked by the last step, or NoDownload
    liveUrls,      \* object URLs of documents created and not yet revoked
    lastOp         \* name of the handler or continuation that ran last

vars == <<pdfInfo, startPage, endPage, isDragging, isProcessing, error,
          loads, extracts, download, liveUrls, lastOp>>

-----------------------------------------------------------------------------
(* Bounds *)

MaxPages == 3       \* largest page count of a file the user picks
MaxInFlight == 2    \* loadPdf and extractPages calls in flight at once
MaxUrls == 2        \* object URLs of documents alive at once

-----------------------------------------------------------------------------
(* Values *)

Null == [null |-> TRUE]
NoError == "null"
NoDownload == [none |-> TRUE]

PdfType == "application/pdf"
OtherType == "text/plain"

LoadError == "Unable to read this file. Please ensure it's a valid PDF."
SelectError == "Please select a PDF file."
DropError == "Please drop a PDF file."
ExtractError == "Something went wrong. Please try again."

\* File names are sequences of pieces; ".pdf" is one piece.  The file of n
\* pages is called a.pdf when n is odd and b.pdf.v2.pdf when n is even.
FileName(n) ==
    IF n % 2 = 1 THEN <<"a", ".pdf">> ELSE <<"b", ".pdf", ".v2", ".pdf">>

\* The pages of a document of n pages, identified by their 1-based number.
PagesOf(n) == [p \in 1..n |-> p]

\* The files the user can pick or drop.  data is what PDFDocument.load
\* finds in the bytes: the sequence of the pages of the document.
PdfFiles == { [name |-> FileName(n), type |-> PdfType, data |-> PagesOf(n)] :
                 n \in 0..MaxPages }
OtherFiles == { [name |-> <<"n", ".txt">>, type |-> OtherType, data |-> <<>>] }
Files == PdfFiles \cup OtherFiles

-----------------------------------------------------------------------------
(* Pure parts of the component *)

\* pdf.getPageCount()
GetPageCount(data) == Len(data)

Max(a, b) == IF a >= b THEN a ELSE b
Min(a, b) == IF a <= b THEN a ELSE b

\* Math.ceil(n / 2) for n >= 0
CeilHalf(n) == (n + 1) \div 2

isValidRange ==
    /\ pdfInfo # Null
    /\ startPage >= 1
    /\ endPage >= startPage
    /\ endPage <= pdfInfo.pageCount

\* Mutant of selectedPageCount: the count of an inclusive range is taken as
\* the difference of its bounds.
selectedPageCountExclusive == IF isValidRange THEN endPage - startPage ELSE 0

selectedPageCount == IF isValidRange THEN endPage - startPage + 1 ELSE 0

\* The selection info of the oldest variant of the page, which computes the
\* count in place: the number shown, or "Invalid range".
selectionInfoOldest ==
    IF isValidRange THEN [valid |-> TRUE, pages |-> endPage - startPage + 1]
    ELSE [valid |-> FALSE, pages |-> 0]

pageNumbers == IF pdfInfo = Null THEN {} ELSE 1..pdfInfo.pageCount

RemoveAt(s, i) == [k \in 1..(Len(s) - 1) |-> IF k < i THEN s[k] ELSE s[k + 1]]

-----------------------------------------------------------------------------
Init ==
    /\ pdfInfo = Null
    /\ startPage = 1
    /\ endPage = 1
    /\ isDragging = FALSE
    /\ isProcessing = FALSE
    /\ error = NoError
    /\ loads = <<>>
    /\ extracts = <<>>
    /\ download = NoDownload
    /\ liveUrls = {}
    /\ lastOp = <<"init">>

-----------------------------------------------------------------------------
(* loadPdf, handleFileSelect, handleDrop, drag events (upload view) *)

\* The drop zone and the file input are rendered only while no document is
\* loaded (page.tsx:252-270); neither is disabled while isProcessing.
UploadView == pdfInfo = Null

\* file.type === "application/pdf"
IsPdf(f) == f.type = PdfType

\* The number of async calls suspended at an await.
InFlight == Len(loads) + Len(extracts)

\* loadPdf up to its first await: setError(null), setIsProcessing(true),
\* then file.arrayBuffer() is pending.
LoadPdfStart(f) ==
    /\ InFlight < MaxInFlight
    /\ Cardinality(liveUrls) + Len(loads) < MaxUrls
    /\ error' = NoError
    /\ isProcessing' = TRUE
    /\ loads' = Append(loads, [file |-> f])

\* Mutant of RejectFile: the rejected file also clears the processing flag.
RejectFileAndStopProcessing(msg) ==
    /\ error' = msg
    /\ isProcessing' = FALSE
    /\ UNCHANGED loads

\* The else-if branch of handleFileSelect / handleDrop: only setError.
RejectFile(msg) ==
    /\ error' = msg
    /\ UNCHANGED <<isProcessing, loads>>

\* What lastOp keeps of the state before a file is handed over: for a file
\* that is not a PDF, the part of the state the handler has to leave alone.
Before(f) ==
    IF f.type = PdfType THEN <<>>
    ELSE <<pdfInfo, startPage, endPage, isProcessing, loads>>

\* onChange of the file input.  (The input fires no change event for the
\* file it already holds; dropping that file has the effect the event
\* would have had.)
HandleFileSelect(f) ==
    /\ UploadView
    /\ IF IsPdf(f) THEN LoadPdfStart(f) ELSE RejectFile(SelectError)
    /\ lastOp' = <<"handleFileSelect", f.type, Before(f)>>
    /\ download' = NoDownload
    /\ UNCHANGED <<pdfInfo, startPage, endPage, isDragging, extracts,
                   liveUrls>>

\* What lastOp keeps of the state before a drag event: the part of the
\* state the handler has to leave alone.
BeforeDrag == <<pdfInfo, startPage, endPage, error, isProcessing>>

HandleDragOver ==
    /\ UploadView
    /\ isDragging' = TRUE
    /\ lastOp' = <<"handleDragOver", BeforeDrag>>
    /\ download' = NoDownload
    /\ UNCHANGED <<pdfInfo, startPage, endPage, isProcessing, error, loads,
                   extracts, liveUrls>>

\* Mutant of HandleDragLeave: leaving the drop zone also clears the error.
HandleDragLeaveClearsError ==
    /\ UploadView
    /\ isDragging' = FALSE
    /\ error' = NoError
    /\ lastOp' = <<"handleDragLeave", BeforeDrag>>
    /\ download' = NoDownload
    /\ UNCHANGED <<pdfInfo, startPage, endPage, isProcessing, loads,
                   extracts, liveUrls>>

HandleDragLeave ==
    /\ UploadView
    /\ isDragging' = FALSE
    /\ lastOp' = <<"handleDragLeave", BeforeDrag>>
    /\ download' = NoDownload
    /\ UNCHANGED <<pdfInfo, startPage, endPage, isProcessing, error, loads,
                   extracts, liveUrls>>

HandleDrop(f) ==
    /\ UploadView
    /\ isDragging' = FALSE
    /\ IF IsPdf(f) THEN LoadPdfStart(f) ELSE RejectFile(DropError)
    /\ lastOp' = <<"handleDrop", f.type, Before(f)>>
    /\ download' = NoDownload
    /\ UNCHANGED <<pdfInfo, startPage, endPage, extracts, liveUrls>>

\* A drop that carries no file (dataTransfer.files[0] is undefined): neither
\* branch of the if runs.
HandleDropNoFile ==
    /\ UploadView
    /\ isDragging' = FALSE
    /\ lastOp' = <<"handleDrop", "none">>
    /\ download' = NoDownload
    /\ UNCHANGED <<pdfInfo, startPage, endPage, isProcessing, error, loads,
                   extracts, liveUrls>>

\* URL.createObjectURL(blob): a URL that is not alive.  (URLs are numbered;
\* the number of a revoked URL is free again, which no handler can tell,
\* since a revoked URL is never used again.)
CreateObjectURL ==
    CHOOSE u \in 1..MaxUrls :
        u \notin liveUrls /\ \A v \in 1..(u - 1) : v \in liveUrls

\* The PdfInfo object built at page.tsx:65-71.
NewPdfInfo(f, url) ==
    [name |-> f.name, pageCount |-> GetPageCount(f.data), data |-> f.data,
     url |-> url]

\* Mutant of FullRange: setEndPage(pageCount) is left out.
FullRangeEndKept(pageCount) == <<1, 1>>

\* setStartPage(1); setEndPage(pageCount)
FullRange(pageCount) == <<1, pageCount>>

\* Mutant of LoadPdfSuccess: the finally block is left out.
LoadPdfSuccessNoFinally(i) ==
    /\ i \in 1..Len(loads)
    /\ pdfInfo' = NewPdfInfo(loads[i].file, CreateObjectURL)
    /\ liveUrls' = liveUrls \cup {CreateObjectURL}
    /\ startPage' = FullRange(GetPageCount(loads[i].file.data))[1]
    /\ endPage' = FullRange(GetPageCount(loads[i].file.data))[2]
    /\ loads' = RemoveAt(loads, i)
    /\ lastOp' = <<"loadPdfSuccess", loads[i].file, <<startPage, endPage>>,
                   i - 1>>
    /\ download' = NoDownload
    /\ UNCHANGED <<isDragging, isProcessing, error, extracts>>

\* await file.arrayBuffer() and await PDFDocument.load have both resolved
\* (nothing of the state changes in between): the rest of the try block,
\* then finally.  lastOp keeps the file, the range the continuation found
\* and the number of loads started earlier that are still pending.
LoadPdfSuccess(i) ==
    /\ i \in 1..Len(loads)
    /\ pdfInfo' = NewPdfInfo(loads[i].file, CreateObjectURL)
    /\ liveUrls' = liveUrls \cup {CreateObjectURL}
    /\ startPage' = FullRange(GetPageCount(loads[i].file.data))[1]
    /\ endPage' = FullRange(GetPageCount(loads[i].file.data))[2]
    /\ isProcessing' = FALSE
    /\ loads' = RemoveAt(loads, i)
    /\ lastOp' = <<"loadPdfSuccess", loads[i].file, <<startPage, endPage>>,
                   i - 1>>
    /\ download' = NoDownload
    /\ UNCHANGED <<isDragging, error, extracts>>

\* Mutant of LoadPdfCatch: the catch block also resets the range.
LoadPdfCatchResetsRange(i) ==
    /\ i \in 1..Len(loads)
    /\ error' = LoadError
    /\ pdfInfo' = Null
    /\ startPage' = 1
    /\ endPage' = 1
    /\ isProcessing' = FALSE
    /\ loads' = RemoveAt(loads, i)
    /\ lastOp' = <<"loadPdfCatch", <<startPage, endPage>>>>
    /\ download' = NoDownload
    /\ UNCHANGED <<isDragging, extracts, liveUrls>>

\* Either await of loadPdf rejects: catch and finally.  lastOp keeps the
\* range the handler found.
LoadPdfCatch(i) ==
    /\ i \in 1..Len(loads)
    /\ error' = LoadError
    /\ pdfInfo' = Null
    /\ isProcessing' = FALSE
    /\ loads' = RemoveAt(loads, i)
    /\ lastOp' = <<"loadPdfCatch", <<startPage, endPage>>>>
    /\ download' = NoDownload
    /\ UNCHANGED <<startPage, endPage, isDragging, extracts, liveUrls>>

-----------------------------------------------------------------------------
(* Range controls of the editor view *)

\* Mutant of RevokeObjectURL: the URL stays alive.
RevokeNothing(url) == liveUrls

\* URL.revokeObjectURL(url)
RevokeObjectURL(url) == liveUrls \ {url}

\* The editor is rendered only while a document is loaded (page.tsx:252,
\* 321); none of its range controls is disabled while isProcessing.
EditorView == pdfInfo # Null

Digits == <<"0", "1", "2", "3", "4", "5", "6", "7", "8", "9">>
IsDigit(c) == \E d \in 1..10 : Digits[d] = c
DigitVal(c) == (CHOOSE d \in 1..10 : Digits[d] = c) - 1

\* The result of parseInt: a number, or NaN.
NaN == [nan |-> TRUE, v |-> 0]
Num(n) == [nan |-> FALSE, v |-> n]

\* The value of the leading run of digits of s, after acc.
RECURSIVE ParseDigits(_, _)
ParseDigits(s, acc) ==
    IF s = <<>> \/ ~IsDigit(Head(s)) THEN acc
    ELSE ParseDigits(Tail(s), 10 * acc + DigitVal(Head(s)))

\* parseInt(text): an optional sign, then the leading digits; NaN when
\* there is no digit to read.
ParseInt(s) ==
    LET neg == s # <<>> /\ Head(s) = "-"
        body == IF neg THEN Tail(s) ELSE s
    IN  IF body = <<>> \/ ~IsDigit(Head(body)) THEN NaN
        ELSE IF neg THEN Num(0 - ParseDigits(body, 0))
        ELSE Num(ParseDigits(body, 0))

\* x || 1 for the result of parseInt: NaN and 0 are falsy.
OrOne(x) == IF x.nan \/ x.v = 0 THEN 1 ELSE x.v

\* Mutant of Clamp: the lower bound is left out.
ClampAboveOnly(val, pageCount) == Min(val, pageCount)

\* Mutant of Clamp: the upper bound is left out.
ClampBelowOnly(val, pageCount) == Max(1, val)

\* Math.max(1, Math.min(val, pdfInfo.pageCount))
Clamp(val, pageCount) == Max(1, Min(val, pageCount))

\* What the user can leave in a number input: empty, negative, zero, every
\* page number up to one past the largest document, and a decimal.
TypedTexts ==
    { <<>>, <<"-", "1">>, <<"2", ".", "5">> }
        \cup { <<Digits[n + 1]>> : n \in 0..(MaxPages + 1) }

\* onChange of the start page input.  lastOp keeps the text and the bound
\* the handler has to leave alone.
TypeStart(text) ==
    /\ EditorView
    /\ startPage' = Clamp(OrOne(ParseInt(text)), pdfInfo.pageCount)
    /\ lastOp' = <<"typeStart", text, endPage>>
    /\ download' = NoDownload
    /\ UNCHANGED <<pdfInfo, endPage, isDragging, isProcessing, error, loads,
                   extracts, liveUrls>>

\* Mutant of TypeEnd: the typed number is stored as it is.
TypeEndUnclamped(text) ==
    /\ EditorView
    /\ endPage' = OrOne(ParseInt(text))
    /\ lastOp' = <<"typeEnd", text, startPage>>
    /\ download' = NoDownload
    /\ UNCHANGED <<pdfInfo, startPage, isDragging, isProcessing, error, loads,
                   extracts, liveUrls>>

\* onChange of the end page input
TypeEnd(text) ==
    /\ EditorView
    /\ endPage' = Clamp(OrOne(ParseInt(text)), pdfInfo.pageCount)
    /\ lastOp' = <<"typeEnd", text, startPage>>
    /\ download' = NoDownload
    /\ UNCHANGED <<pdfInfo, startPage, isDragging, isProcessing, error, loads,
                   extracts, liveUrls>>

\* The range each quick-select button sets.
AllPagesRange(pageCount) == <<1, pageCount>>
FirstRange(pageCount) == <<1, 1>>
LastRange(pageCount) == <<pageCount, pageCount>>

\* Mutant of FirstHalfRange: the half is rounded down.
FirstHalfRangeFloor(pageCount) == <<1, pageCount \div 2>>

FirstHalfRange(pageCount) == <<1, CeilHalf(pageCount)>>

\* pdfInfo.pageCount > 2 && (<button>First half</button>)
FirstHalfOffered(pageCount) == pageCount > 2

\* The same condition in the oldest variant of the page.
FirstHalfOfferedOldest(pageCount) == pageCount > 1

SetRange(r) ==
    /\ startPage' = r[1]
    /\ endPage' = r[2]
    /\ download' = NoDownload
    /\ UNCHANGED <<pdfInfo, isDragging, isProcessing, error, loads, extracts,
                   liveUrls>>

SelectAll ==
    /\ EditorView
    /\ SetRange(AllPagesRange(pdfInfo.pageCount))
    /\ lastOp' = <<"selectAll", <<startPage, endPage>>>>

SelectFirst ==
    /\ EditorView
    /\ SetRange(FirstRange(pdfInfo.pageCount))
    /\ lastOp' = <<"selectFirst", <<startPage, endPage>>>>

SelectLast ==
    /\ EditorView
    /\ SetRange(LastRange(pdfInfo.pageCount))
    /\ lastOp' = <<"selectLast", <<startPage, endPage>>>>

SelectFirstHalf ==
    /\ EditorView
    /\ FirstHalfOffered(pdfInfo.pageCount)
    /\ SetRange(FirstHalfRange(pdfInfo.pageCount))
    /\ lastOp' = <<"selectFirstHalf", <<startPage, endPage>>>>

\* Mutant of ClickPage: the click sets the start page only.
ClickPageSetsStartOnly(pageNum) ==
    /\ EditorView
    /\ pageNum \in pageNumbers
    /\ SetRange(<<pageNum, endPage>>)
    /\ lastOp' = <<"clickPage", pageNum>>

\* onClick of the thumbnail of page pageNum
ClickPage(pageNum) ==
    /\ EditorView
    /\ pageNum \in pageNumbers
    /\ SetRange(<<pageNum, pageNum>>)
    /\ lastOp' = <<"clickPage", pageNum>>

resetFile ==
    /\ EditorView
    /\ liveUrls' = RevokeObjectURL(pdfInfo.url)
    /\ pdfInfo' = Null
    /\ startPage' = 1
    /\ endPage' = 1
    /\ error' = NoError
    /\ lastOp' = <<"resetFile", <<startPage, endPage>>, pdfInfo.url>>
    /\ download' = NoDownload
    /\ UNCHANGED <<isDragging, isProcessing, loads, extracts>>

-----------------------------------------------------------------------------
(* extractPages *)

\* Mutant of ExtractDisabled: the button looks at isProcessing only.
ExtractDisabledWhileProcessingOnly == isProcessing

\* disabled={!isValidRange || isProcessing} of the download button
ExtractDisabled == ~isValidRange \/ isProcessing

\* Mutant of PageIndices: the loop stops before end (i < end).
PageIndicesBeforeEnd(start, end) ==
    [k \in 1..Max(0, end - start) |-> start + k - 1]

\* The loop at page.tsx:126-132: the indices start, start + 1, ..., end.
PageIndices(start, end) ==
    [k \in 1..Max(0, end - start + 1) |-> start + k - 1]

\* newPdf.copyPages(sourcePdf, pageIndices) as far as it succeeds: the pages
\* of the source at the given zero-based indices, in the order given.
CopyPagesDefined(src, indices) ==
    \A k \in 1..Len(indices) : indices[k] \in 0..(Len(src) - 1)
CopyPages(src, indices) ==
    [k \in 1..Len(indices) |-> src[indices[k] + 1]]

\* pages.forEach((page) => newPdf.addPage(page)) on the document doc
AddPages(doc, pages) == doc \o pages

\* name.replace(".pdf", ""): the first piece ".pdf" is removed.
RECURSIVE ReplacePdf(_)
ReplacePdf(name) ==
    IF name = <<>> THEN <<>>
    ELSE IF Head(name) = ".pdf" THEN Tail(name)
    ELSE <<Head(name)>> \o ReplacePdf(Tail(name))

\* `${baseName}_pages_${startPage}-${endPage}.pdf`
DownloadName(name, start, end) ==
    ReplacePdf(name) \o <<"_pages_", start, "-", end, ".pdf">>

\* extractPages up to its first await.  The call keeps pdfInfo, startPage
\* and endPage of the render whose button was clicked.
ExtractPagesStart ==
    /\ EditorView
    /\ ~ExtractDisabled
    /\ pdfInfo # Null
    /\ InFlight < MaxInFlight
    /\ error' = NoError
    /\ isProcessing' = TRUE
    /\ extracts' = Append(extracts,
            [pdfInfo |-> pdfInfo, startPage |-> startPage,
             endPage |-> endPage, pc |-> "load", sourcePdf |-> <<>>,
             pageIndices |-> <<>>, newPdf |-> <<>>, steps |-> <<>>])
    /\ lastOp' = <<"extractPages">>
    /\ download' = NoDownload
    /\ UNCHANGED <<pdfInfo, startPage, endPage, isDragging, loads, liveUrls>>

\* Mutant of ExtractLoaded: the new document is saved without the copy.
ExtractLoadedSkipsCopy(i) ==
    /\ i \in 1..Len(extracts)
    /\ extracts[i].pc = "load"
    /\ extracts' = [extracts EXCEPT
            ![i].pc = "save",
            ![i].sourcePdf = extracts[i].pdfInfo.data,
            ![i].newPdf = <<>>,
            ![i].pageIndices = PageIndices(extracts[i].startPage - 1,
                                           extracts[i].endPage - 1),
            ![i].steps = <<"open", "create">>]
    /\ lastOp' = <<"extractLoaded">>
    /\ download' = NoDownload
    /\ UNCHANGED <<pdfInfo, startPage, endPage, isDragging, isProcessing,
                   error, loads, liveUrls>>

\* await PDFDocument.load(pdfInfo.data) resolves, and so does await
\* PDFDocument.create(), which only allocates the empty document; the
\* index list is built and copyPages is pending.
ExtractLoaded(i) ==
    /\ i \in 1..Len(extracts)
    /\ extracts[i].pc = "load"
    /\ extracts' = [extracts EXCEPT
            ![i].pc = "copy",
            ![i].sourcePdf = extracts[i].pdfInfo.data,
            ![i].newPdf = <<>>,
            ![i].pageIndices = PageIndices(extracts[i].startPage - 1,
                                           extracts[i].endPage - 1),
            ![i].steps = <<"open", "create">>]
    /\ lastOp' = <<"extractLoaded">>
    /\ download' = NoDownload
    /\ UNCHANGED <<pdfInfo, startPage, endPage, isDragging, isProcessing,
                   error, loads, liveUrls>>

\* await newPdf.copyPages(...) resolves; the pages are appended and
\* newPdf.save() is pending.
ExtractCopied(i) ==
    /\ i \in 1..Len(extracts)
    /\ extracts[i].pc = "copy"
    /\ CopyPagesDefined(extracts[i].sourcePdf, extracts[i].pageIndices)
    /\ extracts' = [extracts EXCEPT
            ![i].pc = "save",
            ![i].newPdf = AddPages(extracts[i].newPdf,
                              CopyPages(extracts[i].sourcePdf,
                                        extracts[i].pageIndices)),
            ![i].steps = extracts[i].steps \o <<"copy", "append">>]
    /\ lastOp' = <<"extractCopied">>
    /\ download' = NoDownload
    /\ UNCHANGED <<pdfInfo, startPage, endPage, isDragging, isProcessing,
                   error, loads, liveUrls>>

\* Mutant of Link: the file name is built from the range of the page at
\* the time of the click.
LinkNamedByCurrentRange(e) ==
    [name |-> DownloadName(e.pdfInfo.name, startPage, endPage),
     pages |-> e.newPdf,
     pageIndices |-> e.pageIndices,
     source |-> e.pdfInfo,
     startPage |-> e.startPage,
     endPage |-> e.endPage,
     steps |-> Append(e.steps, "serialize")]

\* The link that page.tsx:138-148 builds and clicks for the call e.
Link(e) ==
    [name |-> DownloadName(e.pdfInfo.name, e.startPage, e.endPage),
     pages |-> e.newPdf,
     pageIndices |-> e.pageIndices,
     source |-> e.pdfInfo,
     startPage |-> e.startPage,
     endPage |-> e.endPage,
     steps |-> Append(e.steps, "serialize")]

\* Mutant of ExtractSaved: the range goes back to the first page after the
\* download.
ExtractSavedResetsRange(i) ==
    /\ i \in 1..Len(extracts)
    /\ extracts[i].pc = "save"
    /\ download' = Link(extracts[i])
    /\ startPage' = 1
    /\ endPage' = 1
    /\ isProcessing' = FALSE
    /\ extracts' = RemoveAt(extracts, i)
    /\ lastOp' = <<"extractSaved">>
    /\ UNCHANGED <<pdfInfo, isDragging, error, loads, liveUrls>>

\* await newPdf.save() resolves: the download is triggered, then finally.
ExtractSaved(i) ==
    /\ i \in 1..Len(extracts)
    /\ extracts[i].pc = "save"
    /\ download' = Link(extracts[i])
    /\ isProcessing' = FALSE
    /\ extracts' = RemoveAt(extracts, i)
    /\ lastOp' = <<"extractSaved">>
    /\ UNCHANGED <<pdfInfo, startPage, endPage, isDragging, error, loads,
                   liveUrls>>

\* Mutant of CatchDownload: the link is clicked for whatever the call has
\* built so far.
CatchDownloadPartial(e) == Link(e)

\* What the catch block of extractPages does about the download: nothing.
CatchDownload(e) == NoDownload

\* Mutant of ExtractCatch: the finally block is left out.
ExtractCatchNoFinally(i) ==
    /\ i \in 1..Len(extracts)
    /\ error' = ExtractError
    /\ extracts' = RemoveAt(extracts, i)
    /\ download' = CatchDownload(extracts[i])
    /\ lastOp' = <<"extractCatch", extracts[i].pc>>
    /\ UNCHANGED <<pdfInfo, startPage, endPage, isDragging, isProcessing,
                   loads, liveUrls>>

\* Any await of extractPages rejects: catch and finally.
ExtractCatch(i) ==
    /\ i \in 1..Len(extracts)
    /\ error' = ExtractError
    /\ isProcessing' = FALSE
    /\ extracts' = RemoveAt(extracts, i)
    /\ download' = CatchDownload(extracts[i])
    /\ lastOp' = <<"extractCatch", extracts[i].pc>>
    /\ UNCHANGED <<pdfInfo, startPage, endPage, isDragging, loads, liveUrls>>

-----------------------------------------------------------------------------
Next ==
    \/ HandleDragOver
    \/ HandleDragLeave
    \/ \E f \in Files : HandleDrop(f)
    \/ HandleDropNoFile
    \/ \E f \in Files : HandleFileSelect(f)
    \/ \E i \in 1..MaxInFlight : LoadPdfSuccess(i)
    \/ \E i \in 1..MaxInFlight : LoadPdfCatch(i)
    \/ \E text \in TypedTexts : TypeStart(text)
    \/ \E text \in TypedTexts : TypeEnd(text)
    \/ SelectAll
    \/ SelectFirst
    \/ SelectLast
    \/ SelectFirstHalf
    \/ \E pageNum \in 1..MaxPages : ClickPage(pageNum)
    \/ resetFile
    \/ ExtractPagesStart
    \/ \E i \in 1..MaxInFlight : ExtractLoaded(i)
    \/ \E i \in 1..MaxInFlight : ExtractCopied(i)
    \/ \E i \in 1..MaxInFlight : ExtractSaved(i)
    \/ \E i \in 1..MaxInFlight : ExtractCatch(i)

Spec == Init /\ [][Next]_vars

\* The i-th pending loadPdf call goes on: its await resolves or rejects.
LoadPdfSettles(i) == LoadPdfSuccess(i) \/ LoadPdfCatch(i)

\* The i-th pending extractPages call goes on: its await resolves or rejects.
ExtractPagesSettles(i) ==
    ExtractLoaded(i) \/ ExtractCopied(i) \/ ExtractSaved(i) \/ ExtractCatch(i)

\* Every promise awaited by loadPdf and extractPages (file.arrayBuffer,
\* PDFDocument.load, copyPages, save) settles; the user is free to do
\* nothing.
PromisesSettle ==
    \A i \in 1..MaxInFlight :
        WF_vars(LoadPdfSettles(i)) /\ WF_vars(ExtractPagesSettles(i))

\* The files for which the editor offers no "First half" preset.
FairFiles == {f \in Files : ~FirstHalfOffered(GetPageCount(f.data))}

\* Next for a user who picks and drops the files of FairFiles only, which
\* leaves out SelectFirstHalf.
FairNext ==
    \/ HandleDragOver
    \/ HandleDragLeave
    \/ \E f \in FairFiles : HandleDrop(f)
    \/ HandleDropNoFile
    \/ \E f \in FairFiles : HandleFileSelect(f)
    \/ \E i \in 1..MaxInFlight : LoadPdfSuccess(i)
    \/ \E i \in 1..MaxInFlight : LoadPdfCatch(i)
    \/ \E text \in TypedTexts : TypeStart(text)
    \/ \E text \in TypedTexts : TypeEnd(text)
    \/ SelectAll
    \/ SelectFirst
    \/ SelectLast
    \/ \E pageNum \in 1..MaxPages : ClickPage(pageNum)
    \/ resetFile
    \/ ExtractPagesStart
    \/ \E i \in 1..MaxInFlight : ExtractLoaded(i)
    \/ \E i \in 1..MaxInFlight : ExtractCopied(i)
    \/ \E i \in 1..MaxInFlight : ExtractSaved(i)
    \/ \E i \in 1..MaxInFlight : ExtractCatch(i)

FairSpec == Init /\ [][FairNext]_vars /\ PromisesSettle

-----------------------------------------------------------------------------
(* Properties *)

LoadedPages == pdfInfo.pageCount

\* C1: when loadPdf completes successfully for a file of N >= 1 pages, the
\* loaded document is that file (its name, pageCount = N) and the range is
\* startPage = 1, endPage = N, whatever the range was before.
C1_LoadSetsDocumentAndFullRange ==
    lastOp[1] = "loadPdfSuccess" =>
        LET file == lastOp[2]
            N == Len(file.data)
        IN  N >= 1 =>
                /\ pdfInfo # Null
                /\ pdfInfo.name = file.name
                /\ pdfInfo.pageCount = N
                /\ pdfInfo.data = file.data
                /\ startPage = 1
                /\ endPage = N

\* A load of a file of several pages completes while the range is neither
\* the initial [1, 1] nor the full range of that file.
C1_Witness ==
    /\ lastOp[1] = "loadPdfSuccess"
    /\ Len(lastOp[2].data) >= 2
    /\ lastOp[3][1] > 1
    /\ lastOp[3][2] # Len(lastOp[2].data)

\* C2 as stated: whenever a document (of at least one page) is loaded,
\* 1 <= startPage <= endPage <= pageCount.
C2_RangeAlwaysOrdered ==
    (pdfInfo # Null /\ LoadedPages >= 1) =>
        /\ 1 <= startPage
        /\ startPage <= endPage
        /\ endPage <= LoadedPages

RangeSetters ==
    {"loadPdfSuccess", "selectAll", "selectFirst", "selectLast",
     "selectFirstHalf", "clickPage"}

\* C2 as amended: whenever a document of at least one page is loaded, each
\* bound lies in 1..pageCount, and startPage <= endPage holds right after a
\* load, a quick-select preset and a preview page click; a typed bound is
\* clamped on its own and may leave startPage > endPage.
C2_BoundsInDocumentOrderedBySetters ==
    (pdfInfo # Null /\ LoadedPages >= 1) =>
        /\ startPage \in 1..LoadedPages
        /\ endPage \in 1..LoadedPages
        /\ lastOp[1] \in RangeSetters => startPage <= endPage

\* A typed end bound has left the range of a loaded document reversed.
C2_Witness ==
    /\ pdfInfo # Null
    /\ LoadedPages >= 1
    /\ lastOp[1] = "typeEnd"
    /\ startPage > endPage

\* C3: for a loaded document of N pages and every range with
\* 1 <= startPage <= endPage <= N, isValidRange is true and the displayed
\* number of selected pages is endPage - startPage + 1.
C3_ValidRangeCount ==
    (/\ pdfInfo # Null
     /\ 1 <= startPage
     /\ startPage <= endPage
     /\ endPage <= LoadedPages) =>
        /\ isValidRange
        /\ selectedPageCount = endPage - startPage + 1
        /\ selectionInfoOldest.valid
        /\ selectionInfoOldest.pages = endPage - startPage + 1

\* The range [2, 3] of a document of three pages is shown as two pages.
C3_Witness ==
    /\ pdfInfo # Null
    /\ LoadedPages = 3
    /\ startPage = 2
    /\ endPage = 3
    /\ selectedPageCount = 2

\* C4: whenever endPage < startPage, startPage < 1 or endPage > pageCount,
\* the range is invalid and the download button is disabled; so every
\* extractPages call was started from a range valid for the document it
\* captured.
C4_InvalidRangeDisablesExtraction ==
    /\ (/\ pdfInfo # Null
        /\ \/ endPage < startPage
           \/ startPage < 1
           \/ endPage > LoadedPages) =>
            /\ ~isValidRange
            /\ ExtractDisabled
    /\ \A i \in 1..Len(extracts) :
            /\ 1 <= extracts[i].startPage
            /\ extracts[i].startPage <= extracts[i].endPage
            /\ extracts[i].endPage <= extracts[i].pdfInfo.pageCount
    /\ lastOp[1] = "extractPages" => isValidRange

\* Nothing is being processed and the range of the loaded document is
\* reversed: only the range keeps the button disabled.
C4_Witness ==
    /\ pdfInfo # Null
    /\ LoadedPages >= 2
    /\ endPage < startPage
    /\ ~isProcessing
    /\ ExtractDisabled

\* C5: a successful extraction of [s, e] hands copyPages exactly the
\* zero-based indices s-1, ..., e-1 in increasing order and appends the
\* copies in that order: the output has e - s + 1 pages, the source pages
\* s..e in their original order.
C5_ExtractedPages ==
    /\ \A i \in 1..Len(extracts) :
            LET x == extracts[i]
                n == x.endPage - x.startPage + 1
            IN  /\ x.pc \in {"copy", "save"} =>
                    /\ Len(x.pageIndices) = n
                    /\ \A k \in 1..n : x.pageIndices[k] = x.startPage - 2 + k
                /\ x.pc = "save" =>
                    /\ Len(x.newPdf) = n
                    /\ \A k \in 1..n :
                           x.newPdf[k] = x.pdfInfo.data[x.startPage - 1 + k]
    /\ download # NoDownload =>
            LET n == download.endPage - download.startPage + 1
            IN  /\ 1 <= download.startPage
                /\ download.startPage <= download.endPage
                /\ download.endPage <= download.source.pageCount
                /\ Len(download.pageIndices) = n
                /\ \A k \in 1..n :
                       download.pageIndices[k] = download.startPage - 2 + k
                /\ Len(download.pages) = n
                /\ \A k \in 1..n :
                       /\ download.pages[k] = download.startPage - 1 + k
                       /\ download.pages[k] =
                              download.source.data[download.startPage - 1 + k]

\* Pages 2 and 3 of a document of three pages have been downloaded.
C5_Witness ==
    /\ download # NoDownload
    /\ download.source.pageCount = 3
    /\ download.startPage = 2
    /\ download.endPage = 3
    /\ download.pages = <<2, 3>>

\* C6: a download is triggered only once the source open, the page copy
\* and the serialization of that same extraction have succeeded; when a
\* step fails, no download is triggered and the generic message is set.
C6_DownloadOnlyAfterSave ==
    /\ download # NoDownload =>
            /\ lastOp[1] = "extractSaved"
            /\ download.steps =
                   <<"open", "create", "copy", "append", "serialize">>
    /\ lastOp[1] = "extractCatch" =>
            /\ download = NoDownload
            /\ error = ExtractError

\* The serialization of an extraction whose pages were already copied
\* has failed.
C6_Witness ==
    /\ lastOp[1] = "extractCatch"
    /\ lastOp[2] = "save"
    /\ error = ExtractError
    /\ download = NoDownload

\* C7: selecting or dropping a file whose type is not application/pdf sets
\* an error message and leaves the loaded document, the range, isProcessing
\* and the loads in flight as they were.
C7_NonPdfRejected ==
    (lastOp[1] \in {"handleFileSelect", "handleDrop"} /\ lastOp[2] = OtherType) =>
        /\ error = (IF lastOp[1] = "handleDrop" THEN DropError ELSE SelectError)
        /\ <<pdfInfo, startPage, endPage, isProcessing, loads>> = lastOp[3]

\* A file that is not a PDF has been dropped while a load was in flight.
C7_Witness ==
    /\ lastOp[1] = "handleDrop"
    /\ lastOp[2] = OtherType
    /\ error = DropError
    /\ isProcessing
    /\ Len(loads) = 1

\* C8: with a document of N pages loaded, "All" sets [1, N], "First" [1, 1],
\* "Last" [N, N] and "First half" [1, ceil(N / 2)]; "First half" is offered
\* only when N > 2 (N > 1 in the oldest variant); each preset overwrites
\* both bounds.
C8_QuickSelect ==
    /\ lastOp[1] = "selectAll" => startPage = 1 /\ endPage = LoadedPages
    /\ lastOp[1] = "selectFirst" => startPage = 1 /\ endPage = 1
    /\ lastOp[1] = "selectLast" =>
            startPage = LoadedPages /\ endPage = LoadedPages
    /\ lastOp[1] = "selectFirstHalf" =>
            /\ LoadedPages > 2
            /\ startPage = 1
            /\ 2 * endPage >= LoadedPages
            /\ 2 * (endPage - 1) < LoadedPages
    /\ \A n \in 0..MaxPages :
            /\ FirstHalfOffered(n) <=> n > 2
            /\ FirstHalfOfferedOldest(n) <=> n > 1

\* "First half" of a document of three pages has replaced the range [3, 3]
\* by [1, 2].
C8_Witness ==
    /\ lastOp[1] = "selectFirstHalf"
    /\ lastOp[2] = <<3, 3>>
    /\ LoadedPages = 3
    /\ startPage = 1
    /\ endPage = 2

\* C9: at most one loadPdf call is in flight.
C9_AtMostOneLoad == Len(loads) <= 1

\* C10: at most one extractPages call is in flight.
C10_AtMostOneExtraction == Len(extracts) <= 1

\* The handlers of the user's actions on the document, the range and the
\* error message (the drag-over and drag-leave handlers only set isDragging).
UserActions ==
    {"handleFileSelect", "handleDrop", "typeStart", "typeEnd", "selectAll",
     "selectFirst", "selectLast", "selectFirstHalf", "clickPage", "resetFile"}

\* C11: while a load or an extraction is in flight no user action is
\* accepted: a step of a user action taken while an operation is in flight
\* changes neither the document, nor the range, nor the error message.
C11_NoUserActionWhileInFlight ==
    [][(InFlight > 0 /\ lastOp'[1] \in UserActions) =>
            <<pdfInfo, startPage, endPage, error>>' =
                <<pdfInfo, startPage, endPage, error>>]_vars

\* C12: the object URL of a document is released whenever the document is
\* replaced or cleared: the URLs created and not yet revoked are none while
\* no document is loaded, and exactly the URL of the current document while
\* one is loaded.
C12_DocumentUrlsReleased ==
    liveUrls = IF pdfInfo = Null THEN {} ELSE {pdfInfo.url}

\* The continuations that end a loadPdf call and an extractPages call.
LoadFinished == {"loadPdfSuccess", "loadPdfCatch"}
ExtractFinished == {"extractSaved", "extractCatch"}

\* C13: if every awaited call settles, a load in flight leads to a finished
\* load and an extraction in flight to a finished extraction; the step
\* that finishes one, with or without error, leaves isProcessing false on
\* a page with no document or with a document; processing never stays on.
C13_StartedOperationsFinish ==
    /\ (Len(loads) > 0) ~> (lastOp[1] \in LoadFinished /\ ~isProcessing)
    /\ (Len(extracts) > 0) ~> (lastOp[1] \in ExtractFinished /\ ~isProcessing)
    /\ isProcessing ~> ~isProcessing
    /\ [](InFlight = 0 => ~isProcessing)

\* A failed extraction has left the page at rest on its document.
C13_Witness ==
    /\ lastOp[1] = "extractCatch"
    /\ InFlight = 0
    /\ ~isProcessing
    /\ pdfInfo # Null
    /\ error = ExtractError

\* C14: a drag-over event sets isDragging to true and a drag-leave event
\* sets it to false; both leave the document, startPage, endPage, error and
\* isProcessing as they were.
C14_DragEvents ==
    /\ lastOp[1] = "handleDragOver" =>
            /\ isDragging
            /\ <<pdfInfo, startPage, endPage, error, isProcessing>> = lastOp[2]
    /\ lastOp[1] = "handleDragLeave" =>
            /\ ~isDragging
            /\ <<pdfInfo, startPage, endPage, error, isProcessing>> = lastOp[2]

\* The pointer has left the drop zone while a load was in flight and an
\* error message was shown.
C14_Witness ==
    /\ lastOp[1] = "handleDragLeave"
    /\ ~isDragging
    /\ isProcessing
    /\ error = DropError

\* C15: when a load fails, the error is the load-failure message, no
\* document is loaded, isProcessing is false, and startPage and endPage are
\* what they were before.
C15_FailedLoad ==
    lastOp[1] = "loadPdfCatch" =>
        /\ error = LoadError
        /\ pdfInfo = Null
        /\ ~isProcessing
        /\ <<startPage, endPage>> = lastOp[2]

\* A load has failed on a page whose range was [2, 3].
C15_Witness ==
    /\ lastOp[1] = "loadPdfCatch"
    /\ error = LoadError
    /\ pdfInfo = Null
    /\ ~isProcessing
    /\ startPage = 2
    /\ endPage = 3

\* C16: when an extraction fails, the error message is set, isProcessing is
\* false, and the document, startPage and endPage are the ones the page had
\* when that extraction was started (the ones its call captured).
C16_FailedExtractionKeepsDocument ==
    [][lastOp'[1] = "extractCatch" =>
            \E i \in 1..Len(extracts) :
                /\ extracts' = RemoveAt(extracts, i)
                /\ error' = ExtractError
                /\ ~isProcessing'
                /\ pdfInfo' = extracts[i].pdfInfo
                /\ startPage' = extracts[i].startPage
                /\ endPage' = extracts[i].endPage]_vars

\* The library operations of one extraction, in the order of the try block;
\* the download is the click on the link.
StepOrder == <<"open", "create", "copy", "append", "serialize">>

\* The number of operations an extraction has behind it when it waits at pc.
StepsDoneAt(pc) == IF pc = "load" THEN 0 ELSE IF pc = "copy" THEN 2 ELSE 4

\* C17: within one extraction the source is opened, the new document
\* created, the pages copied, appended, the document serialized and the
\* download triggered, in this order: what an extraction in flight has done
\* is the initial stretch of that order up to its pending await, a download
\* has all five operations behind it, and a failure at any await ends the
\* call with the error message.
C17_StepOrder ==
    /\ \A i \in 1..Len(extracts) :
            /\ extracts[i].pc \in {"load", "copy", "save"}
            /\ extracts[i].steps =
                   SubSeq(StepOrder, 1, StepsDoneAt(extracts[i].pc))
    /\ download # NoDownload => download.steps = StepOrder
    /\ lastOp[1] = "extractCatch" =>
            /\ lastOp[2] \in {"load", "copy", "save"}
            /\ error = ExtractError

\* A download has been triggered while another extraction waits for its
\* page copy.
C17_Witness ==
    /\ lastOp[1] = "extractSaved"
    /\ download # NoDownload
    /\ download.steps = StepOrder
    /\ Len(extracts) = 1
    /\ extracts[1].pc = "copy"
    /\ extracts[1].steps = <<"open", "create">>

\* C18: the downloaded file is named <basename>_pages_<start>-<end>.pdf,
\* where <basename> is the name of the source file without its .pdf
\* extension and [start, end] is the extracted range.
C18_DownloadName ==
    download # NoDownload =>
        LET name == download.source.name
            basename == IF name[Len(name)] = ".pdf"
                        THEN SubSeq(name, 1, Len(name) - 1)
                        ELSE name
        IN  download.name =
                basename \o <<"_pages_", download.startPage, "-",
                              download.endPage, ".pdf">>

\* The steps that set startPage or endPage by design: the successful load
\* and the range controls of the editor.
RangeActions == RangeSetters \cup {"typeStart", "typeEnd"}

\* C19: startPage and endPage change only through a successful load or a
\* range action (typing, preset, page click): every other step, remove-file
\* included, leaves the range unchanged.
C19_RangeChangesOnlyByRangeActions ==
    [][lastOp'[1] \notin RangeActions =>
            <<startPage, endPage>>' = <<startPage, endPage>>]_vars

\* C19 as amended: remove-file resets the range to [1, 1]; every step other
\* than a successful load, a range action and remove-file (the start and the
\* end of an extraction, a failed load, a rejected file, the drag events)
\* leaves the range unchanged.
C19_RangeFrame ==
    [][/\ lastOp'[1] \notin RangeActions \cup {"resetFile"} =>
            <<startPage, endPage>>' = <<startPage, endPage>>
       /\ lastOp'[1] = "resetFile" => startPage' = 1 /\ endPage' = 1]_vars

\* Remove-file has replaced the range [2, 3] by [1, 1].
C19_Witness ==
    /\ lastOp[1] = "resetFile"
    /\ lastOp[2] = <<2, 3>>
    /\ pdfInfo = Null
    /\ startPage = 1
    /\ endPage = 1

\* C20: typing into the start or end input stores that bound clamped into
\* [1, pageCount]: an empty entry, a negative number and zero are stored as
\* 1, a page number above pageCount as pageCount, a page number within the
\* document as it is; the other bound is left unchanged.
C20_TypedBoundClamped ==
    lastOp[1] \in {"typeStart", "typeEnd"} =>
        LET text == lastOp[2]
            stored == IF lastOp[1] = "typeStart" THEN startPage ELSE endPage
            other == IF lastOp[1] = "typeStart" THEN endPage ELSE startPage
        IN  /\ 1 <= stored
            /\ stored <= LoadedPages
            /\ text \in {<<>>, <<"-", "1">>, <<"0">>} => stored = 1
            /\ \A n \in 1..9 :
                   text = <<Digits[n + 1]>> =>
                       stored = IF n > LoadedPages THEN LoadedPages ELSE n
            /\ other = lastOp[3]

\* C20 as amended: the same for a document of at least one page; for a
\* document of no page every entry is stored as 1.
C20_TypedBoundClampedInDocument ==
    lastOp[1] \in {"typeStart", "typeEnd"} =>
        LET text == lastOp[2]
            stored == IF lastOp[1] = "typeStart" THEN startPage ELSE endPage
            other == IF lastOp[1] = "typeStart" THEN endPage ELSE startPage
        IN  /\ LoadedPages >= 1 =>
                /\ 1 <= stored
                /\ stored <= LoadedPages
                /\ text \in {<<>>, <<"-", "1">>, <<"0">>} => stored = 1
                /\ \A n \in 1..9 :
                       text = <<Digits[n + 1]>> =>
                           stored = IF n > LoadedPages THEN LoadedPages ELSE n
            /\ LoadedPages = 0 => stored = 1
            /\ other = lastOp[3]

\* "4" has been typed as the end page of a document of three pages whose
\* start page is 2: the end page is 3.
C20_Witness ==
    /\ lastOp = <<"typeEnd", <<"4">>, 2>>
    /\ LoadedPages = 3
    /\ startPage = 2
    /\ endPage = 3

\* C21: an extraction is entered only from the ready state and exits back
\* to it: right after the start of one a document is loaded and the range is
\* valid, and right after the end of one, by success or by failure, a
\* document is loaded and isProcessing is false.
C21_ExtractionFromReadyToReady ==
    /\ lastOp[1] = "extractPages" => pdfInfo # Null /\ isValidRange
    /\ lastOp[1] \in ExtractFinished => pdfInfo # Null /\ ~isProcessing

\* C22: right after remove-file no document is loaded, startPage = 1,
\* endPage = 1, the error message is none, and the URL of the removed
\* document is revoked.
C22_ResetFile ==
    lastOp[1] = "resetFile" =>
        /\ pdfInfo = Null
        /\ startPage = 1
        /\ endPage = 1
        /\ error = NoError
        /\ lastOp[3] \notin liveUrls

\* The document has been removed while its extraction was in flight; its
\* URL was the only one alive.
C22_Witness ==
    /\ lastOp[1] = "resetFile"
    /\ lastOp[3] = 1
    /\ liveUrls = {}
    /\ pdfInfo = Null
    /\ Len(extracts) = 1

\* C23: whenever a load or an extraction is in flight, isProcessing is
\* true.
C23_ProcessingWhileInFlight == InFlight > 0 => isProcessing

\* C24: whenever a document of at least one page is loaded, each bound
\* taken alone lies in 1..pageCount, so that the range is invalid exactly
\* when endPage < startPage.
C24_EachBoundInDocument ==
    (pdfInfo # Null /\ LoadedPages >= 1) =>
        /\ startPage \in 1..LoadedPages
        /\ endPage \in 1..LoadedPages
        /\ ~isValidRange <=> endPage < startPage

\* The start page 3 of a document of three pages has been typed over the
\* range [1, 2]: the range is invalid.
C24_Witness ==
    /\ lastOp[1] = "typeStart"
    /\ LoadedPages = 3
    /\ startPage = 3
    /\ endPage = 2
    /\ ~isValidRange

\* C25: whenever no load and no extraction is in flight, isProcessing is
\* false.
C25_IdleNotProcessing == InFlight = 0 => ~isProcessing

\* The last of two overlapping loads has succeeded after the other: nothing
\* is in flight, both URLs are alive, and isProcessing is false.
C25_Witness ==
    /\ lastOp[1] = "loadPdfSuccess"
    /\ InFlight = 0
    /\ liveUrls = {1, 2}
    /\ ~isProcessing

\* C26: an extraction works on the document and the range of the moment it
\* was started: the call that has just started holds the document and the
\* range of the page; the source it has opened and the indices it copies
\* are those of the document and range it holds; the pages of the download
\* and the numbers in its file name are those of that document and range.
C26_ExtractionUsesCapturedState ==
    /\ lastOp[1] = "extractPages" =>
            LET e == extracts[Len(extracts)]
            IN  <<e.pdfInfo, e.startPage, e.endPage>> =
                    <<pdfInfo, startPage, endPage>>
    /\ \A i \in 1..Len(extracts) :
            LET e == extracts[i]
            IN  e.pc # "load" =>
                    /\ e.sourcePdf = e.pdfInfo.data
                    /\ e.pageIndices =
                           [k \in 1..(e.endPage - e.startPage + 1) |->
                                e.startPage + k - 2]
    /\ download # NoDownload =>
            LET s == download.startPage
                e == download.endPage
                n == Len(download.name)
            IN  /\ download.pages =
                       [k \in 1..(e - s + 1) |-> download.source.data[s + k - 1]]
                /\ SubSeq(download.name, n - 4, n) =
                       <<"_pages_", s, "-", e, ".pdf">>

\* Pages 2-3 have been downloaded after their document was removed during
\* the extraction.
C26_Witness ==
    /\ lastOp[1] = "extractSaved"
    /\ pdfInfo = Null
    /\ startPage = 1
    /\ endPage = 1
    /\ download # NoDownload
    /\ download.startPage = 2
    /\ download.endPage = 3

\* C27: a download that is triggered holds pages of the document that is
\* loaded at that moment: none is triggered while no document is loaded or
\* after the extracted document was removed or replaced.
C27_DownloadOfLoadedDocument ==
    download # NoDownload => pdfInfo # Null /\ download.source = pdfInfo

\* C28: of two loads that both succeed, the one started later gives the
\* document and the range: a load that succeeds right after a load started
\* later than itself has succeeded leaves the document and the range of
\* that later load; and a load that fails does not clear a document that
\* another load has installed.
C28_LatestStartedLoadWins ==
    [][/\ (/\ lastOp[1] = "loadPdfSuccess"
           /\ lastOp'[1] = "loadPdfSuccess"
           /\ lastOp'[4] < lastOp[4]) =>
               <<pdfInfo, startPage, endPage>>' = <<pdfInfo, startPage, endPage>>
       /\ (lastOp'[1] = "loadPdfCatch" /\ pdfInfo # Null) =>
               pdfInfo' = pdfInfo]_vars

\* C29: right after a load has succeeded the error message is none.
C29_NoErrorAfterLoad == lastOp[1] = "loadPdfSuccess" => error = NoError

\* The quick-select presets.
Presets == {"selectAll", "selectFirst", "selectLast", "selectFirstHalf"}

\* The two number inputs.
TypedBounds == {"typeStart", "typeEnd"}

\* C30: a click on preview page p sets the range to [p, p]; after a page
\* click and after a preset the range is valid; a step that changes the
\* document or the range and leaves a document with an invalid range is the
\* typing of a bound.
C30_InvalidRangeOnlyByTyping ==
    [][/\ lastOp'[1] = "clickPage" =>
               startPage' = lastOp'[2] /\ endPage' = lastOp'[2]
       /\ lastOp'[1] \in Presets \cup {"clickPage"} => isValidRange'
       /\ (/\ pdfInfo' # Null
           /\ ~isValidRange'
           /\ <<pdfInfo, startPage, endPage>>' # <<pdfInfo, startPage, endPage>>)
               => lastOp'[1] \in TypedBounds]_vars

\* C30 as amended: the same for a document of at least one page.
C30_InvalidRangeOnlyByTypingInDocument ==
    [][/\ lastOp'[1] = "clickPage" =>
               startPage' = lastOp'[2] /\ endPage' = lastOp'[2]
       /\ (lastOp'[1] \in Presets \cup {"clickPage"} /\ LoadedPages' >= 1) =>
               isValidRange'
       /\ (/\ pdfInfo' # Null
           /\ LoadedPages' >= 1
           /\ ~isValidRange'
           /\ <<pdfInfo, startPage, endPage>>' # <<pdfInfo, startPage, endPage>>)
               => lastOp'[1] \in TypedBounds]_vars

\* Page 2 of a document of three pages has been clicked: the range is the
\* valid range [2, 2].
C30_Witness ==
    /\ lastOp = <<"clickPage", 2>>
    /\ LoadedPages = 3
    /\ startPage = 2
    /\ endPage = 2
    /\ isValidRange

====
